---- MODULE Spec2Model ----
(***************************************************************************)
(* ShowTime API (src/main.py): the seat map (GET /seats/{showtime_id}) and *)
(* the booking endpoint (POST /book) over the MongoDB collections          *)
(* showtime, screen and booking.  Each request runs in its own worker      *)
(* thread; every database call is one atomic step, and the steps of        *)
(* different requests interleave freely.                                   *)
(***************************************************************************)
EXTENDS Integers, Sequences, FiniteSets, TLC

\* ------------------------------------------------------------------ bounds
\* longest seat list of a booking request
MaxSeats == 2

\* largest screen geometry the seat grid is built for on its own
MaxRows == 26
MaxCols == 12

\* the concurrent requests (one worker thread each)
Clients == {"c1", "c2"}

\* ------------------------------------------------------------- python bits
None == [none |-> TRUE]

\* dict.get(key, default)
Get(doc, key, default) == IF key \in DOMAIN doc THEN doc[key] ELSE default

Range(s) == {s[i] : i \in DOMAIN s}

\* ----------------------------------------------------------------- bson
\* An id string is a sequence of characters.  bson's ObjectId(str) accepts
\* a string of the full length whose characters are all hexadecimal digits
\* of either case (bytes.fromhex) and keeps the bytes; anything else raises
\* InvalidId.  The 24 digits of the library are scaled to 2 here.
HexVal ==
  [c \in {"0","1","2","3","4","5","6","7","8","9",
          "a","b","c","d","e","f","A","B","C","D","E","F"} |->
     CASE c = "0" -> 0 [] c = "1" -> 1 [] c = "2" -> 2 [] c = "3" -> 3
       [] c = "4" -> 4 [] c = "5" -> 5 [] c = "6" -> 6 [] c = "7" -> 7
       [] c = "8" -> 8 [] c = "9" -> 9
       [] c \in {"a","A"} -> 10 [] c \in {"b","B"} -> 11
       [] c \in {"c","C"} -> 12 [] c \in {"d","D"} -> 13
       [] c \in {"e","E"} -> 14 [] c \in {"f","F"} -> 15]

InvalidId == [raised |-> "InvalidId"]

ObjectId(oid) ==
  IF Len(oid) = 2 /\ \A i \in DOMAIN oid : oid[i] \in DOMAIN HexVal
  THEN [binary |-> [i \in DOMAIN oid |-> HexVal[oid[i]]]]
  ELSE InvalidId

\* the ids of the catalog documents, as ObjectId values
OidT1 == [binary |-> <<10, 1>>]
OidT2 == [binary |-> <<10, 2>>]
OidT3 == [binary |-> <<10, 3>>]
OidS1 == [binary |-> <<11, 1>>]
OidS2 == [binary |-> <<11, 2>>]

\* --------------------------------------------------------------- inputs
\* showtime ids a client may send: T1 in lower and in upper case, T2, T3
\* (whose screen document is missing), a well-formed id of no showtime, and
\* a string that is no ObjectId
ShowtimeIds ==
  { <<"a","1">>, <<"A","1">>, <<"a","2">>, <<"a","3">>, <<"a","9">>, <<"z","1">> }

\* seat codes a client may ask for: all three are seats of Screen 1, only A1
\* is a seat of Screen 2
SeatCodes == {"A1", "A2", "A3"}

SeatLists == UNION { [1..n -> SeatCodes] : n \in 0..MaxSeats }

\* BookingRequest (customer_name and customer_email are stored and never read)
BookingRequests == [showtime_id : ShowtimeIds, seats : SeatLists]

\* ---------------------------------------------------------------- state
VARIABLES
  ledger,  \* the booking collection: its documents, in insertion order
  pc,     \* client -> position of its request in its handler
  op,     \* client -> "book" | "seats" | "none"
  req,    \* client -> the request (BookingRequest, or the path parameter)
  st,     \* client -> the handler's local st
  resp,   \* client -> the HTTP response
  started, \* client -> the number of committed bookings when its request arrived
  layout  \* a screen geometry, a set of booked codes and the grid built for them

vars == <<ledger, pc, op, req, st, resp, started, layout>>

\* ------------------------------------------------------------- catalog
\* The showtime and screen collections: written by no handler modelled here.
\* T1 and T2 are shaped as the seeded documents; T2 carries a price map
\* without "Gold" (price_map is any dict).  T3 names a screen that does not
\* exist: screen_id is a plain string that nothing ties to a screen document.
Catalog ==
  [ showtime |->
      << [id |-> OidT1, screen_id |-> <<"b","1">>,
          price_map |-> [Silver |-> 200, Gold |-> 350, Platinum |-> 500]],
         [id |-> OidT2, screen_id |-> <<"b","2">>,
          price_map |-> [Silver |-> 200, Platinum |-> 500]],
         [id |-> OidT3, screen_id |-> <<"b","9">>,
          price_map |-> [Silver |-> 200, Gold |-> 350, Platinum |-> 500]] >>,
    screen |->
      << [id |-> OidS1, name |-> "Screen 1", rows |-> 1, seats_per_row |-> 3],
         [id |-> OidS2, name |-> "Screen 2", rows |-> 2, seats_per_row |-> 1] >> ]

\* ----------------------------------------------------------- database
\* db[collection]
db(collection) == IF collection = "booking" THEN ledger ELSE Catalog[collection]

\* A query is a list of conditions on fields: {field: value} and
\* {field: {"$in": values}}, the latter on a list field matching when some
\* element of the list is one of the values.
Eq(field, value) == [field |-> field, cond |-> "eq", value |-> value]

In(field, values) == [field |-> field, cond |-> "in", value |-> values]

Matches(doc, query) ==
  \A i \in DOMAIN query :
    /\ query[i].field \in DOMAIN doc
    /\ IF query[i].cond = "eq"
       THEN doc[query[i].field] = query[i].value
       ELSE Range(doc[query[i].field]) \cap Range(query[i].value) # {}

find(collection, query) ==
  SelectSeq(db(collection), LAMBDA doc : Matches(doc, query))

find_one(collection, query) ==
  LET r == find(collection, query) IN IF r = <<>> THEN None ELSE Head(r)

\* insert the document with a fresh _id, return the id
NextId(collection) == Len(db(collection)) + 1

create_document(collection, data) ==
  Append(db(collection), data @@ [id |-> NextId(collection)])

Init ==
  /\ ledger = << >>
  /\ pc = [c \in Clients |-> "idle"]
  /\ op = [c \in Clients |-> "none"]
  /\ req = [c \in Clients |-> None]
  /\ st = [c \in Clients |-> None]
  /\ resp = [c \in Clients |-> None]
  /\ started = [c \in Clients |-> 0]
  /\ layout = None

\* HTTPException(status_code, detail); an unhandled exception is a 500
HTTPException(status_code, detail) == [status |-> status_code, detail |-> detail]

ServerError(exc) == [status |-> 500, detail |-> exc]

Finish(c, response) ==
  /\ pc' = [pc EXCEPT ![c] = "done"]
  /\ resp' = [resp EXCEPT ![c] = response]

\* ------------------------------------------------------------ POST /book
\* line 197-199: look the showtime up
BookFindShowtime(c) ==
  /\ pc[c] = "idle"
  /\ \E r \in BookingRequests :
       LET oid == ObjectId(r.showtime_id)
           doc == find_one("showtime", <<Eq("id", oid)>>)
       IN /\ op' = [op EXCEPT ![c] = "book"]
          /\ req' = [req EXCEPT ![c] = r]
          /\ started' = [started EXCEPT ![c] = Len(ledger)]
          /\ IF oid = InvalidId
             THEN Finish(c, ServerError("InvalidId")) /\ UNCHANGED st
             ELSE IF doc = None
             THEN Finish(c, HTTPException(404, "Showtime not found")) /\ UNCHANGED st
             ELSE /\ st' = [st EXCEPT ![c] = doc]
                  /\ pc' = [pc EXCEPT ![c] = "book_check"]
                  /\ UNCHANGED resp
  /\ UNCHANGED <<ledger, layout>>

\* the conflict query without its showtime_id condition
Existing_AnyShowtime(r) ==
  find("booking", <<In("seats", r.seats)>>)

\* line 202: the bookings of this showtime id that hold a requested seat
Existing(r) ==
  find("booking", <<Eq("showtime_id", r.showtime_id), In("seats", r.seats)>>)

\* line 202-204: the conflict check
BookCheck(c) ==
  /\ pc[c] = "book_check"
  /\ IF Existing(req[c]) # <<>>
     THEN Finish(c, HTTPException(409, "Some seats are already booked"))
     ELSE pc' = [pc EXCEPT ![c] = "book_commit"] /\ UNCHANGED resp
  /\ UNCHANGED <<ledger, op, req, st, started, layout>>

\* a Booking that keeps the first requested seat only
Booking_FirstSeat(r, showtime) ==
  LET base_price == Get(Get(showtime, "price_map", << >>), "Gold", 300)
      total == base_price * Len(r.seats)
  IN [showtime_id |-> r.showtime_id,
      seats |-> IF r.seats = << >> THEN << >> ELSE <<Head(r.seats)>>,
      total_amount |-> total]

\* a Booking priced at the "Platinum" rate
Booking_PlatinumRate(r, showtime) ==
  LET base_price == Get(Get(showtime, "price_map", << >>), "Platinum", 300)
      total == base_price * Len(r.seats)
  IN [showtime_id |-> r.showtime_id, seats |-> r.seats, total_amount |-> total]

\* line 207-216: the Booking document of a request
Booking(r, showtime) ==
  LET base_price == Get(Get(showtime, "price_map", << >>), "Gold", 300)
      total == base_price * Len(r.seats)
  IN [showtime_id |-> r.showtime_id, seats |-> r.seats, total_amount |-> total]

\* a commit that replaces the stored bookings by the new one
BookCommit_Overwrite(c) ==
  /\ pc[c] = "book_commit"
  /\ LET booking == Booking(req[c], st[c])
     IN /\ ledger' = << booking @@ [id |-> NextId("booking")] >>
        /\ Finish(c, [status |-> 200, booking_id |-> NextId("booking"),
                      total |-> booking.total_amount])
  /\ UNCHANGED <<op, req, st, started, layout>>

\* line 207-218: compute the total, insert the booking, answer
BookCommit(c) ==
  /\ pc[c] = "book_commit"
  /\ LET booking == Booking(req[c], st[c])
     IN /\ ledger' = create_document("booking", booking)
        /\ Finish(c, [status |-> 200, booking_id |-> NextId("booking"),
                      total |-> booking.total_amount])
  /\ UNCHANGED <<op, req, st, started, layout>>

\* ------------------------------------------------- GET /seats/{showtime_id}
\* chr(ord('A') + r), r = 0, 1, ...
Alphabet ==
  << "A","B","C","D","E","F","G","H","I","J","K","L","M",
     "N","O","P","Q","R","S","T","U","V","W","X","Y","Z", "[" >>

RowLabel(r) == Alphabet[r + 1]

\* line 182: f"{row_label}{c}"
SeatCode(row_label, c) == row_label \o ToString(c)

\* the seats of all the bookings, whatever their showtime
Booked_AllShowtimes(showtime_id) ==
  UNION { Range(Get(ledger[i], "seats", << >>)) : i \in DOMAIN ledger }

\* line 171-175: the seats of the bookings stored under this showtime id
Booked(showtime_id) ==
  LET booked_docs == find("booking", <<Eq("showtime_id", showtime_id)>>)
  IN UNION { Range(Get(booked_docs[i], "seats", << >>)) : i \in DOMAIN booked_docs }

\* a grid whose columns are numbered from 0 (range(seats_per_row))
Grid_ColumnsFromZero(rows, seats_per_row, booked) ==
  [ r1 \in 1..rows |->
      [ c \in 1..seats_per_row |->
          LET code == SeatCode(RowLabel(r1 - 1), c - 1)
          IN [code |-> code, available |-> code \notin booked] ] ]

\* line 177-184: rows 0..rows-1, columns 1..seats_per_row
Grid(rows, seats_per_row, booked) ==
  [ r1 \in 1..rows |->
      [ c \in 1..seats_per_row |->
          LET code == SeatCode(RowLabel(r1 - 1), c)
          IN [code |-> code, available |-> code \notin booked] ] ]

\* line 163-168: look the showtime and its screen up.  A missing screen
\* makes screen.get raise AttributeError on None.
SeatsFindShowtime(c) ==
  /\ pc[c] = "idle"
  /\ \E showtime_id \in ShowtimeIds :
       LET oid == ObjectId(showtime_id)
           doc == find_one("showtime", <<Eq("id", oid)>>)
           screen == find_one("screen", <<Eq("id", ObjectId(doc.screen_id))>>)
       IN /\ op' = [op EXCEPT ![c] = "seats"]
          /\ req' = [req EXCEPT ![c] = [showtime_id |-> showtime_id]]
          /\ started' = [started EXCEPT ![c] = Len(ledger)]
          /\ IF oid = InvalidId
             THEN Finish(c, ServerError("InvalidId")) /\ UNCHANGED st
             ELSE IF doc = None
             THEN Finish(c, HTTPException(404, "Showtime not found")) /\ UNCHANGED st
             ELSE IF screen = None
             THEN Finish(c, ServerError("AttributeError")) /\ UNCHANGED st
             ELSE /\ st' = [st EXCEPT ![c] = doc]
                  /\ pc' = [pc EXCEPT ![c] = "seats_read"]
                  /\ UNCHANGED resp
  /\ UNCHANGED <<ledger, layout>>

\* the response of get_seats for a showtime document and the current ledger
SeatMap(showtime_id, showtime) ==
  LET screen == find_one("screen", <<Eq("id", ObjectId(showtime.screen_id))>>)
      rows == Get(screen, "rows", 8)
      seats_per_row == Get(screen, "seats_per_row", 12)
  IN [status |-> 200,
      grid |-> Grid(rows, seats_per_row, Booked(showtime_id)),
      price_map |-> Get(showtime, "price_map", << >>)]

\* a read that records a hold for the showtime in the booking collection
SeatsRead_Hold(c) ==
  /\ pc[c] = "seats_read"
  /\ Finish(c, SeatMap(req[c].showtime_id, st[c]))
  /\ ledger' = create_document("booking",
                  [showtime_id |-> req[c].showtime_id, seats |-> << >>,
                   total_amount |-> 0])
  /\ UNCHANGED <<op, req, st, started, layout>>

\* line 171-186: read the bookings, build the grid, answer
SeatsRead(c) ==
  /\ pc[c] = "seats_read"
  /\ Finish(c, SeatMap(req[c].showtime_id, st[c]))
  /\ UNCHANGED <<ledger, op, req, st, started, layout>>

Next ==
  \E c \in Clients :
    \/ BookFindShowtime(c)
    \/ BookCheck(c)
    \/ BookCommit(c)
    \/ SeatsFindShowtime(c)
    \/ SeatsRead(c)

Spec == Init /\ [][Next]_vars

\* ------------------------------------------------- the seat grid on its own
\* line 177-184 applied to any geometry and any set of booked codes
BookedCodes == {"A1", "A2", "B1", "H12", "Z9"}

GridInit ==
  /\ ledger = << >>
  /\ pc = [c \in Clients |-> "idle"]
  /\ op = [c \in Clients |-> "none"]
  /\ req = [c \in Clients |-> None]
  /\ st = [c \in Clients |-> None]
  /\ resp = [c \in Clients |-> None]
  /\ started = [c \in Clients |-> 0]
  /\ \E rows \in 1..MaxRows, seats_per_row \in 1..MaxCols, booked \in SUBSET BookedCodes :
       layout = [rows |-> rows, seats_per_row |-> seats_per_row,
                 booked |-> booked, grid |-> << >>, built |-> FALSE]

BuildGrid ==
  /\ ~layout.built
  /\ layout' = [layout EXCEPT
                  !.grid = Grid(layout.rows, layout.seats_per_row, layout.booked),
                  !.built = TRUE]
  /\ UNCHANGED <<ledger, pc, op, req, st, resp, started>>

GridNext == BuildGrid

GridSpec == GridInit /\ [][GridNext]_vars

\* ================================================================ properties
Seats(b) == Range(b.seats)

\* the showtime document a showtime id string names, or None
ShowtimeOf(showtime_id) ==
  IF ObjectId(showtime_id) = InvalidId THEN None
  ELSE find_one("showtime", <<Eq("id", ObjectId(showtime_id))>>)

\* two id strings name the same existing showtime
SameShowtime(id1, id2) ==
  /\ ShowtimeOf(id1) # None
  /\ ShowtimeOf(id1) = ShowtimeOf(id2)

FinishedBook(c) == pc[c] = "done" /\ op[c] = "book"

Succeeded(c) == resp[c].status = 200

\* the distinct seat codes committed for the showtime an id names
Occupied(showtime_id) ==
  UNION { Seats(ledger[i]) :
            i \in {j \in DOMAIN ledger : SameShowtime(ledger[j].showtime_id, showtime_id)} }

\* C1: in every reachable state, two committed bookings stored under the
\* same showtime id hold no seat code in common.
C1_NoDoubleBooking ==
  \A i, j \in DOMAIN ledger :
    (i # j /\ ledger[i].showtime_id = ledger[j].showtime_id)
      => Seats(ledger[i]) \cap Seats(ledger[j]) = {}

\* C2: when every client has finished a book call for seat A1 of the same
\* showtime, exactly one of the calls succeeded and all the others were
\* rejected with 409.
C2_ExactlyOneWins ==
  (\A c \in Clients :
      /\ FinishedBook(c)
      /\ req[c] = [showtime_id |-> <<"a","1">>, seats |-> <<"A1">>])
    => /\ Cardinality({c \in Clients : Succeeded(c)}) = 1
       /\ \A c \in Clients : ~Succeeded(c) => resp[c].status = 409

PairwiseDisjoint(G) ==
  \A c, d \in G : c # d => Seats(req[c]) \cap Seats(req[d]) = {}

\* the committed bookings of the showtime an id names that were not made by
\* the calls of G
OtherBookings(G, showtime_id) ==
  {i \in DOMAIN ledger :
     /\ SameShowtime(ledger[i].showtime_id, showtime_id)
     /\ \A c \in G : Succeeded(c) => resp[c].booking_id # i}

\* C3: for every group of finished book calls on one existing showtime whose
\* seat lists are pairwise disjoint and disjoint from every other booking
\* committed for the showtime, every call of the group succeeded and the
\* seats committed for the showtime are those of the other bookings plus
\* exactly the union of the group's requests.
C3_DisjointAllSucceed ==
  \A G \in (SUBSET Clients) \ {{}} :
    (/\ \A c \in G : FinishedBook(c)
     /\ \A c, d \in G : SameShowtime(req[c].showtime_id, req[d].showtime_id)
     /\ PairwiseDisjoint(G)
     /\ \A c \in G : \A i \in OtherBookings(G, req[c].showtime_id) :
          Seats(ledger[i]) \cap Seats(req[c]) = {})
    => /\ \A c \in G : Succeeded(c)
       /\ \A c \in G :
            Occupied(req[c].showtime_id)
              = UNION {Seats(ledger[i]) : i \in OtherBookings(G, req[c].showtime_id)}
                \cup UNION {Seats(req[d]) : d \in G}

\* two concurrent calls on one showtime with disjoint non-empty seat lists
\* have both finished, the second having arrived before the first committed
C3_Witness ==
  /\ \A c \in Clients : FinishedBook(c) /\ Succeeded(c) /\ started[c] = 0
  /\ req["c1"] = [showtime_id |-> <<"a","1">>, seats |-> <<"A1", "A2">>]
  /\ req["c2"] = [showtime_id |-> <<"a","1">>, seats |-> <<"A3">>]

\* the bookings committed before the request of c arrived that name the
\* showtime of the request and hold one of its seats
CommittedBefore(c) ==
  {i \in 1..started[c] :
     /\ SameShowtime(ledger[i].showtime_id, req[c].showtime_id)
     /\ Seats(ledger[i]) \cap Seats(req[c]) # {}}

\* C4: a book call that arrives after a booking of the same showtime with a
\* common seat was committed never reaches the commit and ends with 409.
C4_LateOverlapRejected ==
  \A c \in Clients :
    (op[c] = "book" /\ CommittedBefore(c) # {})
      => /\ pc[c] # "book_commit"
         /\ pc[c] = "done" => resp[c].status = 409

\* C5: the grid a seat map request answers with marks a seat unavailable
\* exactly when its code is in a booking committed for the showtime at the
\* moment the bookings are read.
C5_SeatMapMatchesLedger ==
  [][\A c \in Clients :
       (pc[c] = "seats_read" /\ pc'[c] = "done")
         => LET grid == resp'[c].grid
            IN \A r \in DOMAIN grid : \A k \in DOMAIN grid[r] :
                 (~grid[r][k].available)
                   <=> grid[r][k].code \in Occupied(req[c].showtime_id)]_vars

\* C6: a finished book call whose showtime id names no showtime of the
\* catalog was answered 404 and no booking is stored under its id.
C6_UnknownShowtimeNotFound ==
  \A c \in Clients :
    (FinishedBook(c) /\ ShowtimeOf(req[c].showtime_id) = None)
      => /\ resp[c].status = 404
         /\ \A i \in DOMAIN ledger : ledger[i].showtime_id # req[c].showtime_id

\* C7: a finished book call with an empty seat list on an existing showtime
\* was rejected with a validation error (422), and no committed booking has
\* an empty seat list.
C7_EmptySeatListRejected ==
  /\ \A c \in Clients :
       (/\ FinishedBook(c)
        /\ req[c].seats = << >>
        /\ ShowtimeOf(req[c].showtime_id) # None)
       => resp[c].status = 422
  /\ \A i \in DOMAIN ledger : ledger[i].seats # << >>

\* C8: every step of a request either completes a successful book call and
\* appends exactly one booking holding the whole requested seat list under
\* the requested showtime id, or leaves the ledger as it was (in particular
\* every step that ends a call with an error).
C8_AllOrNothing ==
  [][\A c \in Clients :
       IF op'[c] = "book" /\ pc[c] # "done" /\ pc'[c] = "done"
          /\ resp'[c].status = 200
       THEN /\ Len(ledger') = Len(ledger) + 1
            /\ SubSeq(ledger', 1, Len(ledger)) = ledger
            /\ ledger'[Len(ledger')].seats = req'[c].seats
            /\ ledger'[Len(ledger')].showtime_id = req'[c].showtime_id
            /\ ledger'[Len(ledger')].id = resp'[c].booking_id
       ELSE pc'[c] # pc[c] => ledger' = ledger]_vars

\* one call has committed a booking of two seats and a later call that
\* overlaps it in one seat has been rejected, the ledger holding the one
\* booking
C8_Witness ==
  /\ \A c \in Clients : FinishedBook(c)
  /\ req["c1"] = [showtime_id |-> <<"a","1">>, seats |-> <<"A1", "A2">>]
  /\ req["c2"] = [showtime_id |-> <<"a","1">>, seats |-> <<"A2", "A3">>]
  /\ resp["c1"].status = 200
  /\ resp["c2"].status = 409
  /\ Len(ledger) = 1

\* the screen document of a showtime document, or None
ScreenOf(showtime) ==
  find_one("screen", <<Eq("id", ObjectId(showtime.screen_id))>>)

\* the addressable seat codes of a screen
SeatSpace(screen) ==
  {SeatCode(RowLabel(r), k) : r \in 0..(screen.rows - 1), k \in 1..screen.seats_per_row}

HasScreen(showtime_id) ==
  /\ ShowtimeOf(showtime_id) # None
  /\ ScreenOf(ShowtimeOf(showtime_id)) # None

\* C9: every seat code of every committed booking is a seat of the screen of
\* its showtime, and a finished book call that asked for a seat outside the
\* screen did not succeed.
C9_SeatsWithinScreen ==
  /\ \A i \in DOMAIN ledger :
       HasScreen(ledger[i].showtime_id)
         => Seats(ledger[i]) \subseteq SeatSpace(ScreenOf(ShowtimeOf(ledger[i].showtime_id)))
  /\ \A c \in Clients :
       (/\ FinishedBook(c)
        /\ HasScreen(req[c].showtime_id)
        /\ ~(Seats(req[c]) \subseteq SeatSpace(ScreenOf(ShowtimeOf(req[c].showtime_id)))))
       => ~Succeeded(c)

\* C10: a finished seat map request whose showtime does not exist, or whose
\* showtime exists but names a screen that does not exist, was answered 404.
C10_SeatMapNotFound ==
  \A c \in Clients :
    (pc[c] = "done" /\ op[c] = "seats" /\ ~HasScreen(req[c].showtime_id))
      => resp[c].status = 404

\* the letters of the rows 0..25, as the interface names them
RowLetters ==
  << "A","B","C","D","E","F","G","H","I","J","K","L","M",
     "N","O","P","Q","R","S","T","U","V","W","X","Y","Z" >>

\* the seat codes of a grid, row after row
GridCodes(grid) == {grid[r][k].code : r \in DOMAIN grid, k \in 1..Len(grid[1])}

\* C11: the grid built for R rows (1..26) and C seats per row has exactly R
\* rows of exactly C entries, the entry of row index r and column k carries
\* the r-th letter from A followed by k, and the grid holds R*C distinct
\* codes; for R = 8, C = 12 these are 96 codes from A1..A12 through H1..H12.
C11_GridLayout ==
  (layout.built /\ layout.rows <= 26)
    => LET grid == layout.grid
           R == layout.rows
           C == layout.seats_per_row
       IN /\ DOMAIN grid = 1..R
          /\ \A r \in 1..R :
               /\ DOMAIN grid[r] = 1..C
               /\ \A k \in 1..C : grid[r][k].code = RowLetters[r] \o ToString(k)
          /\ Cardinality(GridCodes(grid)) = R * C
          /\ (R = 8 /\ C = 12)
               => /\ Cardinality(GridCodes(grid)) = 96
                  /\ grid[1][1].code = "A1" /\ grid[1][12].code = "A12"
                  /\ grid[8][1].code = "H1" /\ grid[8][12].code = "H12"

\* the grid of the 8 x 12 screen has been built
C11_Witness ==
  /\ layout.built
  /\ layout.rows = 8 /\ layout.seats_per_row = 12
  /\ Len(layout.grid) = 8 /\ Len(layout.grid[8]) = 12

\* the flat rate of the showtime an id names: its "Gold" price, 300 without
FlatRate(showtime_id) ==
  LET price_map == ShowtimeOf(showtime_id).price_map
  IN IF "Gold" \in DOMAIN price_map THEN price_map.Gold ELSE 300

GridOf(showtime_id, booked) ==
  LET screen == ScreenOf(ShowtimeOf(showtime_id))
  IN Grid(screen.rows, screen.seats_per_row, booked)

\* a request that has started and not finished can take its next step
CanStep(c) ==
  pc[c] \in {"book_check", "book_commit", "seats_read"}
    => ENABLED (BookCheck(c) \/ BookCommit(c) \/ SeatsRead(c))

\* C13: a book call is rejected with 409 only when a committed booking of
\* its own showtime holds one of its seats; a started request can always
\* take its next step, whatever the other requests do; and committing a
\* booking leaves the seat map of every other showtime as it was.
C13_ShowtimesIndependent ==
  [][\A c \in Clients :
       /\ (pc[c] = "book_check" /\ pc'[c] = "done")
            => \E i \in DOMAIN ledger :
                 /\ SameShowtime(ledger[i].showtime_id, req[c].showtime_id)
                 /\ Seats(ledger[i]) \cap Seats(req[c]) # {}
       /\ CanStep(c)
       /\ (pc[c] = "book_commit" /\ pc'[c] = "done")
            => \A t \in ShowtimeIds :
                 (HasScreen(t) /\ ~SameShowtime(t, req[c].showtime_id))
                   => GridOf(t, Booked(t)') = GridOf(t, Booked(t))]_vars

\* seat A1 is booked on one showtime, and a call that arrived afterwards has
\* booked seat A1 on another
C13_Witness ==
  /\ \A c \in Clients : FinishedBook(c) /\ Succeeded(c)
  /\ req["c1"] = [showtime_id |-> <<"a","2">>, seats |-> <<"A1">>]
  /\ req["c2"] = [showtime_id |-> <<"a","1">>, seats |-> <<"A1">>]
  /\ started["c2"] = 1

\* C14: every step keeps every committed booking in the ledger as it is and
\* adds at most one booking, whose identity differs from those of all the
\* bookings already there, and exactly one when the step completes a
\* successful book call.
C14_AppendOnly ==
  [][/\ Len(ledger') \in {Len(ledger), Len(ledger) + 1}
     /\ SubSeq(ledger', 1, Len(ledger)) = ledger
     /\ Len(ledger') = Len(ledger) + 1
          => \A i \in DOMAIN ledger : ledger[i].id # ledger'[Len(ledger')].id
     /\ \A c \in Clients :
          (op'[c] = "book" /\ pc[c] # "done" /\ pc'[c] = "done" /\ resp'[c].status = 200)
            => Len(ledger') = Len(ledger) + 1]_vars

\* two bookings are committed, the first one still in its place
C14_Witness ==
  /\ Len(ledger) = 2
  /\ ledger[1].id = 1 /\ ledger[2].id = 2
  /\ \A c \in Clients : FinishedBook(c) /\ Succeeded(c)

FinishedSeats(c) == pc[c] = "done" /\ op[c] = "seats" /\ resp[c].status = 200

\* C15: a seat map shows as unavailable every seat of its screen that a
\* booking of the showtime committed before the request arrived holds (with
\* the ledger only growing, a seat once shown unavailable then stays so for
\* every later request).
C15_ReadsSeeCommittedSeats ==
  \A c \in Clients :
    FinishedSeats(c)
      => \A i \in 1..started[c] :
           SameShowtime(ledger[i].showtime_id, req[c].showtime_id)
             => \A r \in DOMAIN resp[c].grid : \A k \in DOMAIN resp[c].grid[r] :
                  resp[c].grid[r][k].code \in Seats(ledger[i])
                    => ~resp[c].grid[r][k].available

\* C16: a finished book call has one outcome: a committed booking (200),
\* NotFound (404), Conflict (409) or ValidationError (422).
C16_OneListedOutcome ==
  \A c \in Clients :
    FinishedBook(c) => resp[c].status \in {200, 404, 409, 422}

\* C17: no step of a seat map request, whether it ends in a grid or in an
\* error, changes the ledger or anything of another request.
C17_SeatMapNoSideEffect ==
  [][\A c \in Clients :
       (op'[c] = "seats" /\ pc'[c] # pc[c])
         => /\ ledger' = ledger
            /\ \A d \in Clients \ {c} :
                 /\ pc'[d] = pc[d] /\ op'[d] = op[d] /\ req'[d] = req[d]
                 /\ st'[d] = st[d] /\ resp'[d] = resp[d]]_vars

\* a seat map was answered between the conflict check and the commit of a
\* book call that then succeeded
C17_Witness ==
  /\ FinishedSeats("c1") /\ req["c1"].showtime_id = <<"a","1">>
  /\ FinishedBook("c2") /\ Succeeded("c2")
  /\ req["c2"] = [showtime_id |-> <<"a","1">>, seats |-> <<"A1", "A2">>]
  /\ started["c1"] = 0
  /\ ledger # << >>

\* C18: the grid a seat map request answers with has the codes of the
\* screen's geometry in their order whatever the ledger holds, and as many
\* unavailable entries as there are distinct seat codes of the screen
\* committed for the showtime.
C18_GridFromGeometryAndOccupancy ==
  [][\A c \in Clients :
       (pc[c] = "seats_read" /\ pc'[c] = "done")
         => LET grid == resp'[c].grid
                screen == ScreenOf(ShowtimeOf(req[c].showtime_id))
            IN /\ DOMAIN grid = 1..screen.rows
               /\ \A r \in DOMAIN grid :
                    /\ DOMAIN grid[r] = 1..screen.seats_per_row
                    /\ \A k \in DOMAIN grid[r] :
                         grid[r][k].code = RowLetters[r] \o ToString(k)
               /\ Cardinality({<<r, k>> \in (1..screen.rows) \X (1..screen.seats_per_row) :
                                 ~grid[r][k].available})
                    = Cardinality(Occupied(req[c].showtime_id) \cap SeatSpace(screen))]_vars

====
